---- MODULE Spec2Model ----
(***************************************************************************)
(* State-machine model of the slash interaction pipeline of slash.lat:     *)
(* SlashTrail (trail tracker), GameScene pointer handlers (collision       *)
(* resolver, damage and outcome resolver), Target hit points and the       *)
(* ProgressionManager kill notification.                                   *)
(*                                                                         *)
(* Two snapshots of GameScene are modelled side by side; the variable      *)
(* sceneVersion fixes, for a whole behaviour, which one is running:        *)
(*   "v1"  src/src/scenes/LoadingScene.ts   (length-based damage, death    *)
(*         handled in the explode() completion callback)                   *)
(*   "v2"  src/unnamed/part_008, GameScene at line 1620 (constant damage,  *)
(*         immediate removal, per-frame ghost cleanup)                     *)
(*                                                                         *)
(* Geometry is one-dimensional: every pointer position has y = 0, so       *)
(* Math.sqrt(dx*dx + dy*dy) is |dx| and all coordinates stay integers.     *)
(* Hit points are kept multiplied by maxSlashLength so that the damage     *)
(* formula 50 + (len / maxSlashLength) * 50 needs no fractions.            *)
(* Timers (delayedCall, tweens) are events that may fire at any moment     *)
(* after they are armed; scene.time.now is exact.                          *)
(***************************************************************************)
EXTENDS Integers, Sequences, FiniteSets, TLC

----------------------------------------------------------------------------
(* Bounds of the model *)

MaxTargets == 2
MaxMoves == 2
MaxUps == 2
MaxSessions == 2
MaxNow == 700
MaxTrailMoves == 61
MaxLenInit == 320
MaxCount == 3

(* Program constants *)

MAX_SLASH_DURATION == 350
MAX_TRAIL_POINTS == 60
TRAIL_FADE_TIME == 100
TRAIL_FADE_DURATION == 150
MIN_POINT_DISTANCE == 4
dpr == 1
BASE_DAMAGE == 50
BONUS_DAMAGE == 50
DAMAGE_CAP == 100
ONE_HIT_DAMAGE == 9999
FLYBOT_HP == 200
ORANGEBOT_HP == 600
OPACITY_THRESHOLD == 50

maxSlashLength == 300 * dpr
stepSize == 4
stepSizeV2 == 4 * dpr
maxSearchLength == 100 * dpr
sampleStep == 2 * dpr
BROAD_MARGIN == 50

VisibleAlpha(v) == IF v = "v1" THEN 80 ELSE 30

----------------------------------------------------------------------------
(* Inputs: who can be spawned, where the pointer can be *)

Versions == {"v1", "v2"}
TargetIds == 1..MaxTargets
Kinds == {"FlyBot"}
Points == {100, 400}
TrailPts == {0, 8}
TickSteps == {350}
TrailTickSteps == {350}
NoPoint == [x |-> -1, y |-> -1, time |-> -1, alpha |-> 0]

VARIABLES
    sceneVersion,        \* which GameScene snapshot runs
    now,                 \* scene.time.now
    trailPoints,         \* SlashTrail.trailPoints
    isDrawing,           \* SlashTrail.isDrawing
    drawingStartTime,    \* SlashTrail.drawingStartTime
    drawingEndTime,      \* SlashTrail.drawingEndTime
    canStartNewSlash,    \* GameScene.canStartNewSlash
    hasHitTarget,        \* GameScene.hasHitTarget
    currentSlashLength,  \* GameScene.currentSlashLength
    hitTargetsThisSlash, \* GameScene.hitTargetsThisSlash
    targets,             \* GameScene.targets (live-target collection)
    slashMarks,          \* Sparks.slashMarks
    tg,                  \* the Target objects ever constructed, by id
    activeEnemyCount,    \* ProgressionManager.activeEnemyCount
    enemiesSpawnedInWave,\* ProgressionManager.enemiesSpawnedInWave
    obs                  \* history of the run: what each handler did

vars == <<sceneVersion, now, trailPoints, isDrawing, drawingStartTime,
          drawingEndTime, canStartNewSlash, hasHitTarget, currentSlashLength,
          hitTargetsThisSlash, targets, slashMarks, tg, activeEnemyCount,
          enemiesSpawnedInWave, obs>>

trailVars == <<trailPoints, isDrawing, drawingStartTime, drawingEndTime>>
sceneVars == <<canStartNewSlash, hasHitTarget, currentSlashLength,
               hitTargetsThisSlash>>
worldVars == <<targets, slashMarks, tg, activeEnemyCount, enemiesSpawnedInWave>>

----------------------------------------------------------------------------
(* Small helpers *)

Min(a, b) == IF a < b THEN a ELSE b
Max(a, b) == IF a > b THEN a ELSE b
Abs(a) == IF a < 0 THEN -a ELSE a
Last(s) == s[Len(s)]
CeilDiv(a, b) == (a + b - 1) \div b
SeqToSet(s) == {s[i] : i \in 1..Len(s)}
RemoveAt(s, i) == SubSeq(s, 1, i - 1) \o SubSeq(s, i + 1, Len(s))
IndexOf(s, e) == IF e \in SeqToSet(s)
                 THEN CHOOSE i \in 1..Len(s) :
                        s[i] = e /\ \A j \in 1..(i - 1) : s[j] # e
                 ELSE 0
FilterSeq(s, Keep(_)) == SelectSeq(s, Keep)

----------------------------------------------------------------------------
(* SlashTrail: src/slash.lat/src/effects/SlashTrail.ts *)

TrailPoint(x, y, t) == [x |-> x, y |-> y, time |-> t, alpha |-> 100]

\* getLastPoint(): the newest trail point, or NoPoint for null
getLastPoint(pts) == IF Len(pts) > 0 THEN Last(pts) ELSE NoPoint

\* a capacity check that gives up the newest point instead of the oldest
PushAndTrimNewest(pts, p) ==
    LET pushed == Append(pts, p)
    IN IF Len(pushed) >= MAX_TRAIL_POINTS THEN pts ELSE pushed

\* the push followed by the shift of the oldest point at the capacity check
PushAndTrim(pts, p) ==
    LET pushed == Append(pts, p)
    IN IF Len(pushed) >= MAX_TRAIL_POINTS THEN Tail(pushed) ELSE pushed

\* whether the minimum-distance filter of addTrailPoint rejects (x, y)
tooClose(pts, x, y, force) ==
    /\ ~force
    /\ Len(pts) > 0
    /\ LET last == Last(pts)
           distSq == (x - last.x) * (x - last.x) + (y - last.y) * (y - last.y)
           minProps == MIN_POINT_DISTANCE * dpr
       IN distSq < minProps * minProps

\* an addTrailPoint that never checks the session's age
addTrailPointNoTimeout(pts, drawing, start, endT, x, y, force, t) ==
    IF tooClose(pts, x, y, force)
    THEN [ok |-> TRUE, pushed |-> FALSE, pts |-> pts, drawing |-> drawing,
          endT |-> endT]
    ELSE [ok |-> TRUE, pushed |-> TRUE,
          pts |-> PushAndTrim(pts, TrailPoint(x, y, t)),
          drawing |-> drawing, endT |-> endT]

\* an addTrailPoint that tests the distance before the session's age
addTrailPointDistanceFirst(pts, drawing, start, endT, x, y, force, t) ==
    IF tooClose(pts, x, y, force)
    THEN [ok |-> TRUE, pushed |-> FALSE, pts |-> pts, drawing |-> drawing,
          endT |-> endT]
    ELSE IF t - start >= MAX_SLASH_DURATION
         THEN [ok |-> FALSE, pushed |-> FALSE, pts |-> pts, drawing |-> FALSE,
               endT |-> t]
         ELSE [ok |-> TRUE, pushed |-> TRUE,
               pts |-> PushAndTrim(pts, TrailPoint(x, y, t)),
               drawing |-> drawing, endT |-> endT]

\* addTrailPoint(x, y, force), evaluated on the trail state (pts, drawing,
\* start, endT) at time t.  The result carries the return value (ok), whether
\* a point was pushed, and the trail state the call leaves behind.
addTrailPoint(pts, drawing, start, endT, x, y, force, t) ==
    IF t - start >= MAX_SLASH_DURATION
    THEN \* endDrawing(); return false
         [ok |-> FALSE, pushed |-> FALSE, pts |-> pts, drawing |-> FALSE,
          endT |-> t]
    ELSE IF tooClose(pts, x, y, force)
         THEN [ok |-> TRUE, pushed |-> FALSE, pts |-> pts, drawing |-> drawing,
               endT |-> endT]
         ELSE [ok |-> TRUE, pushed |-> TRUE,
               pts |-> PushAndTrim(pts, TrailPoint(x, y, t)),
               drawing |-> drawing, endT |-> endT]

\* a startDrawing that does not append the pointer-down position
startDrawingEmpty(x, y, t) ==
    [ok |-> TRUE, pushed |-> FALSE, pts |-> <<>>, drawing |-> TRUE, endT |-> 0]

\* startDrawing(x, y): the trail state after the call at time t
startDrawing(x, y, t) ==
    addTrailPoint(<<>>, TRUE, t, 0, x, y, TRUE, t)

\* a fade that starts at the end of the session, without the delay
trailFadeAlphaNoDelay(drawing, endT, t) ==
    IF ~drawing /\ endT > 0 /\ t - endT > 0
    THEN Max(0, TRAIL_FADE_DURATION - (t - endT))
    ELSE TRAIL_FADE_DURATION

\* the uniform fade alpha of drawTrail, in 1/TRAIL_FADE_DURATION units:
\* TRAIL_FADE_DURATION stands for 1.0, 0 for fully faded
trailFadeAlpha(drawing, endT, t) ==
    IF ~drawing /\ endT > 0 /\ t - endT > TRAIL_FADE_TIME
    THEN Max(0, TRAIL_FADE_DURATION - (t - endT - TRAIL_FADE_TIME))
    ELSE TRAIL_FADE_DURATION

\* drawTrail(): the only state it changes is the point list
drawTrail(pts, drawing, endT, t) ==
    IF trailFadeAlpha(drawing, endT, t) <= 0 THEN <<>> ELSE pts

----------------------------------------------------------------------------
(* Target: geometry and pixel data (one image row), hit points *)

TargetWidth == 24
WideTargetWidth == 240
ImageScale == 1
TargetCenterX(t) == 100 * t

\* image.displayWidth: the FlyBot texture is 24 pixels wide, the OrangeBot
\* texture 240
displayWidth(t) ==
    IF tg[t].kind = "OrangeBot" THEN WideTargetWidth ELSE TargetWidth

BoundsLeft(t) == TargetCenterX(t) - displayWidth(t) \div 2
BoundsRight(t) == TargetCenterX(t) + displayWidth(t) \div 2

\* Phaser.Geom.Rectangle.contains on y = 0 (the row the pointer moves on)
BoundsContains(t, x) == BoundsLeft(t) <= x /\ x <= BoundsRight(t)

\* imageData alpha channel of the texture row: opaque body in columns 4..9
\* and 12..19, a transparent gap at 10..11, a faint halo (alpha 40) at 20..21,
\* and a single opaque pixel (an antenna tip) in column 1
ImageAlpha(tx) ==
    IF (tx >= 4 /\ tx <= 9) \/ (tx >= 12 /\ tx <= 19) \/ tx = 1 THEN 255
    ELSE IF tx >= 20 /\ tx <= 21 THEN 40
    ELSE 0

\* imageData alpha channel of the OrangeBot texture row: one opaque body in
\* columns 4..235
WideImageAlpha(tx) == IF tx >= 4 /\ tx <= 235 THEN 255 ELSE 0

isPixelOpaque(t, relativeX) ==
    LET targetWidth == displayWidth(t)
        imageX == relativeX + targetWidth \div 2
        textureX == imageX \div ImageScale
        alpha == IF tg[t].kind = "OrangeBot" THEN WideImageAlpha(textureX)
                 ELSE ImageAlpha(textureX)
    IN IF imageX < 0 \/ imageX >= targetWidth THEN FALSE
       ELSE IF textureX < 0 \/ textureX >= targetWidth \div ImageScale
            THEN FALSE
            ELSE alpha > OPACITY_THRESHOLD

getMaxHP(kind) == IF kind = "FlyBot" THEN FLYBOT_HP ELSE ORANGEBOT_HP

\* hit points are stored multiplied by maxSlashLength
Scaled(h) == h * maxSlashLength

\* takeDamage(damage): hp = Math.max(0, hp - damage)
takeDamage(hp, damage) == Max(0, hp - damage)

isDead(hp) == hp <= 0

\* a Target that has not been constructed yet
Unborn == [born |-> FALSE, kind |-> "FlyBot", hp |-> 0, alpha |-> 0,
           tween |-> "none", destroyed |-> FALSE, pendingExplode |-> 0]

\* new characterClass(...): full hp, container alpha 0, entrance tween running
NewTarget(kind) == [born |-> TRUE, kind |-> kind, hp |-> Scaled(getMaxHP(kind)),
                    alpha |-> 0, tween |-> "in", destroyed |-> FALSE,
                    pendingExplode |-> 0]

----------------------------------------------------------------------------
(* Collision resolver: the body of GameScene.onPointerMove after addTrailPoint *)

AlphaUp(a) == IF a < 50 THEN 50 ELSE 100
AlphaDown(a) == IF a > 50 THEN 50 ELSE 0

\* a visibility filter that lets every live target through
visibleTargetsAll(v, live, T) == live

\* this.targets.filter(t => t.getContainer().alpha >= threshold)
visibleTargets(v, live, T) ==
    LET Keep(t) == T[t].alpha >= VisibleAlpha(v)
    IN SelectSeq(live, Keep)

\* a broad phase that keeps only targets lying wholly inside the segment box
nearbyTargetsInside(v, cand, prevX, x) ==
    LET segmentMinX == Min(prevX, x) - BROAD_MARGIN
        segmentMaxX == Max(prevX, x) + BROAD_MARGIN
        Keep(t) == BoundsLeft(t) >= segmentMinX /\ BoundsRight(t) <= segmentMaxX
    IN IF v = "v2" THEN SelectSeq(cand, Keep) ELSE cand

\* broad phase of the later scene: bounds within 50 px of the segment box
nearbyTargets(v, cand, prevX, x) ==
    LET segmentMinX == Min(prevX, x) - BROAD_MARGIN
        segmentMaxX == Max(prevX, x) + BROAD_MARGIN
        Keep(t) == ~(BoundsRight(t) < segmentMinX \/ BoundsLeft(t) > segmentMaxX)
    IN IF v = "v2" THEN SelectSeq(cand, Keep) ELSE cand

\* a step count rounded down instead of up
StepsOfFloor(v, distance) ==
    distance \div (IF v = "v1" THEN stepSize ELSE stepSizeV2)

\* number of interpolation steps and the i-th check point of the segment
StepsOf(v, distance) ==
    CeilDiv(distance, IF v = "v1" THEN stepSize ELSE stepSizeV2)
CheckX(prevX, dx, i, steps) ==
    IF steps > 0 THEN prevX + (dx * i) \div steps ELSE prevX + dx

\* a span search that also probes at the full search length
RECURSIVE SpanSearchInclusive(_, _, _, _, _)
SpanSearchInclusive(t, relativeStartX, n, dist, best) ==
    IF dist <= maxSearchLength /\ isPixelOpaque(t, relativeStartX + n * dist)
    THEN SpanSearchInclusive(t, relativeStartX, n, dist + sampleStep, dist)
    ELSE best

\* a span search that skips transparent probes until it has met an opaque one
RECURSIVE SpanSearchSkipping(_, _, _, _, _)
SpanSearchSkipping(t, relativeStartX, n, dist, best) ==
    IF dist >= maxSearchLength THEN best
    ELSE IF isPixelOpaque(t, relativeStartX + n * dist)
         THEN SpanSearchSkipping(t, relativeStartX, n, dist + sampleStep, dist)
         ELSE IF best > 0 THEN best
              ELSE SpanSearchSkipping(t, relativeStartX, n, dist + sampleStep, best)

\* one direction of the span search: the offset of the last opaque probe of
\* the run that starts next to the hit point (0 when the first probe misses)
RECURSIVE SpanSearch(_, _, _, _, _)
SpanSearch(t, relativeStartX, n, dist, best) ==
    IF dist < maxSearchLength /\ isPixelOpaque(t, relativeStartX + n * dist)
    THEN SpanSearch(t, relativeStartX, n, dist + sampleStep, dist)
    ELSE best

\* number of opacity probes one direction of the span search makes
RECURSIVE SpanProbes(_, _, _, _)
SpanProbes(t, relativeStartX, n, dist) ==
    IF dist >= maxSearchLength THEN 0
    ELSE IF isPixelOpaque(t, relativeStartX + n * dist)
         THEN 1 + SpanProbes(t, relativeStartX, n, dist + sampleStep)
         ELSE 1

Sign(a) == IF a > 0 THEN 1 ELSE IF a < 0 THEN -1 ELSE 0

\* the SlashMark recorded for a qualifying sample of target t
MarkFor(t, checkX, dx) ==
    LET rel == checkX - TargetCenterX(t)
        normalizedX == Sign(dx)
        back == SpanSearch(t, rel, -normalizedX, sampleStep, 0)
        fwd == SpanSearch(t, rel, normalizedX, sampleStep, 0)
    IN [startX |-> rel - normalizedX * back + TargetCenterX(t),
        endX |-> rel + normalizedX * fwd + TargetCenterX(t)]

\* the (sample index, target) pairs of one move whose pixel is opaque
SegmentHits(v, cand, prevX, x) ==
    LET dx == x - prevX
        steps == StepsOf(v, Abs(dx))
    IN {h \in (0..steps) \X SeqToSet(cand) :
          /\ BoundsContains(h[2], CheckX(prevX, dx, h[1], steps))
          /\ isPixelOpaque(h[2], CheckX(prevX, dx, h[1], steps)
                                 - TargetCenterX(h[2]))}

\* the (sample index, target) pairs of one move that reach isPixelOpaque
SegmentTests(v, cand, prevX, x) ==
    LET dx == x - prevX
        steps == StepsOf(v, Abs(dx))
    IN {h \in (0..steps) \X SeqToSet(cand) :
          BoundsContains(h[2], CheckX(prevX, dx, h[1], steps))}

\* the first hit of a move in loop order: lowest sample, then the earliest
\* target of the candidate list
FirstHit(hits, cand) ==
    CHOOSE h \in hits :
        \A g \in hits : \/ h[1] < g[1]
                         \/ (h[1] = g[1] /\ IndexOf(cand, h[2]) <= IndexOf(cand, g[2]))

\* a move that registers only the target of its first hit
TouchedByFirstHitOnly(hits, cand) ==
    IF hits = {} THEN {} ELSE {FirstHit(hits, cand)[2]}

\* a move that registers every candidate of the narrow phase, hit or not
TouchedByAnyCandidate(hits, cand) == SeqToSet(cand)

\* the targets a move adds to hitTargetsThisSlash: the first hit adds its
\* target in the once-per-move block, every hit adds its target after the
\* span search
TouchedBy(hits, cand) ==
    (IF hits = {} THEN {} ELSE {FirstHit(hits, cand)[2]}) \cup {h[2] : h \in hits}

\* the first-point branch: targets whose pixel under the pointer is opaque
PointHits(cand, x) ==
    {t \in SeqToSet(cand) :
        BoundsContains(t, x) /\ isPixelOpaque(t, x - TargetCenterX(t))}

\* the sample points the interpolation loop visits, in order
SamplePoints(v, prevX, x) ==
    LET steps == StepsOf(v, Abs(x - prevX))
    IN [k \in 1..(steps + 1) |-> CheckX(prevX, x - prevX, k - 1, steps)]

\* the targets target.shake(dx, dy) is called on during one move: the block
\* guarded by hitInThisSegment runs for the first hit only
ShakenBy(hits, cand) ==
    IF hits = {} THEN {} ELSE {FirstHit(hits, cand)[2]}

\* the number of audioManager.play("knife-clank") calls of one move
SoundsOf(hits) == IF hits = {} THEN 0 ELSE 1

\* the entry/exit search Target.drawSlashDamage runs itself when it is given
\* no end points: a transparent sample ends it only after an opaque one
RECURSIVE entryExitSearch(_, _, _, _, _)
entryExitSearch(t, relativeX, n, dist, best) ==
    IF dist >= maxSearchLength THEN best
    ELSE IF isPixelOpaque(t, relativeX + n * dist)
         THEN entryExitSearch(t, relativeX, n, dist + sampleStep, dist)
         ELSE IF best > 0 THEN best
              ELSE entryExitSearch(t, relativeX, n, dist + sampleStep, best)

\* the span Target.drawSlashDamage draws, in world coordinates; drawn is
\* FALSE when it returns before drawing
drawSlashDamage(t, slashX, directionX, hasPoints, worldStartX, worldEndX) ==
    LET rel == slashX - TargetCenterX(t)
        n == Sign(directionX)
        back == entryExitSearch(t, rel, -n, sampleStep, 0)
        fwd == entryExitSearch(t, rel, n, sampleStep, 0)
    IN IF directionX = 0 THEN [drawn |-> FALSE, startX |-> slashX, endX |-> slashX]
       ELSE IF hasPoints
            THEN [drawn |-> TRUE, startX |-> worldStartX, endX |-> worldEndX]
            ELSE [drawn |-> back > 0 \/ fwd > 0,
                  startX |-> rel - n * back + TargetCenterX(t),
                  endX |-> rel + n * fwd + TargetCenterX(t)]

\* a move that records a mark for the first hit only
MarksOfFirstHit(v, hits, prevX, x) ==
    LET steps == StepsOf(v, Abs(x - prevX))
    IN IF hits = {} THEN {}
       ELSE LET h == CHOOSE g \in hits : \A e \in hits : g[1] <= e[1]
                cx == CheckX(prevX, x - prevX, h[1], steps)
                m == MarkFor(h[2], cx, x - prevX)
            IN {[i |-> h[1], target |-> h[2], sample |-> cx, dx |-> x - prevX,
                 startX |-> m.startX, endX |-> m.endX,
                 drawn |-> drawSlashDamage(h[2], cx, x - prevX, TRUE,
                                           m.startX, m.endX)]}

\* the sparks.addSlashMark calls of one move, each with the sample that
\* triggered it and the span handed to target.drawSlashDamage
MarksOf(v, hits, prevX, x) ==
    LET steps == StepsOf(v, Abs(x - prevX))
        cx(h) == CheckX(prevX, x - prevX, h[1], steps)
    IN {[i |-> h[1], target |-> h[2], sample |-> cx(h), dx |-> x - prevX,
         startX |-> MarkFor(h[2], cx(h), x - prevX).startX,
         endX |-> MarkFor(h[2], cx(h), x - prevX).endX,
         drawn |-> drawSlashDamage(h[2], cx(h), x - prevX, TRUE,
                                   MarkFor(h[2], cx(h), x - prevX).startX,
                                   MarkFor(h[2], cx(h), x - prevX).endX)] :
          h \in hits}

----------------------------------------------------------------------------
(* Damage and outcome resolver: the body of GameScene.onPointerUp *)

\* a damage formula without the Math.min cap
DamageOfUncapped(v, len) ==
    IF v = "v1"
    THEN BASE_DAMAGE * maxSlashLength + len * BONUS_DAMAGE
    ELSE Scaled(ONE_HIT_DAMAGE)

\* the damage of one release, multiplied by maxSlashLength
DamageOf(v, len) ==
    IF v = "v1"
    THEN Min(BASE_DAMAGE * maxSlashLength + len * BONUS_DAMAGE,
             DAMAGE_CAP * maxSlashLength)
    ELSE Scaled(ONE_HIT_DAMAGE)

\* a release that recomputes the amount per target, the bonus going to the
\* first target only
AppliedDamagePerTarget(v, len, t) ==
    IF t = 1 THEN DamageOf(v, len) ELSE DamageOf(v, 0)

\* the amount handed to takeDamage for target t of the touched set: the one
\* value computed before the loop
AppliedDamage(v, len, t) == DamageOf(v, len)

\* a release that treats a session already ended by the timeout as aborted
touchedAtReleaseIfDrawing(drawing, touched) ==
    IF drawing THEN touched ELSE {}

\* the targets the loop of the release handler runs over: the whole touched
\* set, whether or not the trail was still drawing
touchedAtRelease(drawing, touched) == touched

\* one iteration of the loop over hitTargetsThisSlash, on the Target object
ResolveTarget(v, rec, damage) ==
    LET hp2 == takeDamage(rec.hp, damage)
    IN IF ~isDead(hp2) THEN [rec EXCEPT !.hp = hp2]
       ELSE IF v = "v1"
            THEN \* killTweensOf, explode(callback), fade-out tween
                 [rec EXCEPT !.hp = hp2,
                             !.pendingExplode = @ + 1,
                             !.tween = IF rec.destroyed THEN "none" ELSE "out"]
            ELSE \* explode(), destroy()
                 [rec EXCEPT !.hp = hp2, !.tween = "none", !.destroyed = TRUE]

\* the touched targets a release finds dead after takeDamage
DeadAfter(v, T, touched, len) ==
    {t \in touched : isDead(takeDamage(T[t].hp, AppliedDamage(v, len, t)))}

\* ProgressionManager.onEnemyKilled, n times
onEnemyKilled(count, n) == Max(0, count - n)

----------------------------------------------------------------------------
(* History of the run, read only by the properties *)

\* an event whose narrow phase did not run
NoEvent == [samples |-> <<>>, hits |-> {}, shaken |-> {}, sounds |-> 0,
            marks |-> {}]

Obs0 == [moves |-> 0,       \* pointer-move events since the session started
         ups |-> 0,         \* release events since the session started
         sessions |-> 0,    \* sessions started so far
         probes |-> 0,      \* isPixelOpaque hit tests made by the last event
         last |-> NoEvent,  \* what the narrow phase of the last event did
         lastX |-> -1,      \* pointer position of the last event the session took
         drops |-> 0,       \* trail points shifted out since the session started
         flags |-> {},      \* what happened to the session before its release:
                            \* "forcedEnd", "downIgnored", "moveIgnored"
         hitSamples |-> [t \in TargetIds |-> 0], \* opaque samples this session,
                                                 \* counted up to MaxCount
         dmgCount |-> [t \in TargetIds |-> 0],   \* takeDamage calls, this session
         lastDamage |-> [t \in TargetIds |-> 0], \* amount of the last takeDamage
         deaths |-> [t \in TargetIds |-> 0],     \* death sequences started
         killed |-> [t \in TargetIds |-> 0]]     \* onEnemyKilled() calls

----------------------------------------------------------------------------
(* Initial states *)

Init ==
    /\ sceneVersion \in Versions
    /\ now = 0
    /\ trailPoints = <<>>
    /\ isDrawing = FALSE
    /\ drawingStartTime = 0
    /\ drawingEndTime = 0
    /\ canStartNewSlash = TRUE
    /\ hasHitTarget = FALSE
    /\ currentSlashLength = 0
    /\ hitTargetsThisSlash = {}
    /\ targets = <<>>
    /\ slashMarks = {}
    /\ tg = [t \in TargetIds |-> Unborn]
    /\ activeEnemyCount = 0
    /\ enemiesSpawnedInWave = 0
    /\ obs = Obs0

----------------------------------------------------------------------------
(* GameScene.onPointerDown *)

isSlashCooldown == FALSE

\* a guard that lets every pointer-down through
mayStartSlashAlways(v, lock) == TRUE

\* the guard of onPointerDown: the gesture lock, and the cooldown flag of the
\* later scene
mayStartSlash(v, lock) ==
    lock /\ ~(v = "v2" /\ isSlashCooldown)

onPointerDown(x) ==
    /\ IF ~mayStartSlash(sceneVersion, canStartNewSlash)
       THEN /\ obs' = [obs EXCEPT !.probes = 0, !.last = NoEvent, !.flags = @ \cup {"downIgnored"}]
            /\ UNCHANGED <<trailVars, sceneVars>>
       ELSE LET st == startDrawing(x, 0, now)
            IN /\ canStartNewSlash' = FALSE
               /\ hasHitTarget' = FALSE
               /\ currentSlashLength' = 0
               /\ hitTargetsThisSlash' = {}
               /\ trailPoints' = st.pts
               /\ isDrawing' = st.drawing
               /\ drawingStartTime' = now
               /\ drawingEndTime' = st.endT
               /\ obs' = [obs EXCEPT !.probes = 0, !.last = NoEvent,
                                     !.lastX = x,
                                     !.moves = 0,
                                     !.ups = 0,
                                     !.drops = 0,
                                     !.flags = {},
                                     !.hitSamples = [t \in TargetIds |-> 0],
                                     !.sessions = @ + 1,
                                     !.dmgCount = [t \in TargetIds |-> 0],
                                     !.lastDamage = [t \in TargetIds |-> 0]]
    /\ UNCHANGED <<sceneVersion, now, worldVars>>

----------------------------------------------------------------------------
(* GameScene.onPointerMove *)

onPointerMove(x) ==
    LET prevPoint == getLastPoint(trailPoints)
        r == addTrailPoint(trailPoints, isDrawing, drawingStartTime,
                           drawingEndTime, x, 0, FALSE, now)
        vis == visibleTargets(sceneVersion, targets, tg)
        near == nearbyTargets(sceneVersion, vis, prevPoint.x, x)
        dx == x - prevPoint.x
        hits == SegmentHits(sceneVersion, near, prevPoint.x, x)
        tests == SegmentTests(sceneVersion, near, prevPoint.x, x)
        dropped == IF r.pushed /\ Len(r.pts) <= Len(trailPoints) THEN 1 ELSE 0
        spanProbes(h) ==
            LET cx == CheckX(prevPoint.x, dx, h[1], StepsOf(sceneVersion, Abs(dx)))
                rel == cx - TargetCenterX(h[2])
            IN SpanProbes(h[2], rel, -Sign(dx), sampleStep)
               + SpanProbes(h[2], rel, Sign(dx), sampleStep)
        \* the sum of spanProbes over S, counted as a set of numbered probes
        SumProbes(S) ==
            Cardinality(UNION {{<<h, k>> : k \in 1..spanProbes(h)} : h \in S})
    IN
    /\ UNCHANGED <<sceneVersion, now, drawingStartTime, canStartNewSlash,
                   targets, tg, activeEnemyCount, enemiesSpawnedInWave>>
    /\ IF ~isDrawing
       THEN \* not drawing: the event is dropped
            /\ obs' = [obs EXCEPT !.probes = 0, !.last = NoEvent,
                         !.flags = IF ~canStartNewSlash
                                   THEN @ \cup {"moveIgnored"} ELSE @]
            /\ UNCHANGED <<trailPoints, isDrawing, drawingEndTime, hasHitTarget,
                           currentSlashLength, hitTargetsThisSlash, slashMarks>>
       ELSE
         /\ trailPoints' = r.pts
         /\ isDrawing' = r.drawing
         /\ drawingEndTime' = r.endT
         /\ IF ~r.ok \/ Len(vis) = 0
            THEN \* forced end, or nothing visible to test
                 /\ obs' = [obs EXCEPT !.probes = 0, !.last = NoEvent,
                              !.lastX = x, !.moves = @ + 1,
                              !.drops = @ + dropped,
                              !.flags = IF r.ok THEN @ ELSE @ \cup {"forcedEnd"}]
                 /\ UNCHANGED <<hasHitTarget, currentSlashLength,
                                hitTargetsThisSlash, slashMarks>>
            ELSE IF prevPoint # NoPoint
            THEN /\ currentSlashLength' = currentSlashLength + Abs(dx)
                 /\ IF Len(near) = 0
                    THEN /\ obs' = [obs EXCEPT !.probes = 0, !.last = NoEvent,
                                      !.lastX = x, !.moves = @ + 1,
                                      !.drops = @ + dropped]
                         /\ UNCHANGED <<hasHitTarget, hitTargetsThisSlash,
                                        slashMarks>>
                    ELSE /\ hasHitTarget' = (hasHitTarget \/ hits # {})
                         /\ hitTargetsThisSlash' =
                                hitTargetsThisSlash \cup TouchedBy(hits, near)
                         /\ slashMarks' = slashMarks \cup
                                {[startX |-> m.startX, endX |-> m.endX] :
                                    m \in MarksOf(sceneVersion, hits,
                                                  prevPoint.x, x)}
                         /\ obs' = [obs EXCEPT
                                      !.hitSamples = [t \in TargetIds |->
                                          Min(MaxCount, @[t] + Cardinality(
                                              {h \in hits : h[2] = t}))],
                                      !.probes = Cardinality(tests) + SumProbes(hits),
                                      !.last = [samples |-> SamplePoints(
                                                    sceneVersion, prevPoint.x, x),
                                                hits |-> hits,
                                                shaken |-> ShakenBy(hits, near),
                                                sounds |-> SoundsOf(hits),
                                                marks |-> MarksOf(sceneVersion, hits,
                                                                  prevPoint.x, x)],
                                      !.lastX = x,
                                      !.moves = @ + 1,
                                      !.drops = @ + dropped]
            ELSE \* first point of a trail: single-point test
                 /\ hasHitTarget' = (hasHitTarget \/ PointHits(vis, x) # {})
                 /\ hitTargetsThisSlash' = hitTargetsThisSlash \cup PointHits(vis, x)
                 /\ obs' = [obs EXCEPT
                              !.hitSamples = [t \in TargetIds |->
                                  IF t \in PointHits(vis, x)
                                  THEN Min(MaxCount, @[t] + 1) ELSE @[t]],
                              !.probes = Cardinality({t \in SeqToSet(vis) :
                                                        BoundsContains(t, x)}),
                              !.last = [NoEvent EXCEPT
                                          !.samples = <<x>>,
                                          !.hits = {0} \X PointHits(vis, x),
                                          !.shaken = PointHits(vis, x),
                                          !.sounds = Cardinality(PointHits(vis, x))],
                              !.lastX = x,
                              !.moves = @ + 1,
                              !.drops = @ + dropped]
                 /\ UNCHANGED <<currentSlashLength, slashMarks>>

----------------------------------------------------------------------------
(* GameScene.onPointerUp, registered for pointerup, pointerupoutside and
   pointerout *)

\* a release that frees the gesture lock only when it ends a drawing session
canStartNewSlashIfDrawing(lock, drawing) == lock \/ drawing

\* the gesture lock a release leaves behind: the handler's last statement
\* sets it whatever the lock and the trail were
canStartNewSlashAfterUp(lock, drawing) == TRUE

onPointerUp ==
    LET touched == touchedAtRelease(isDrawing, hitTargetsThisSlash)
        dead == IF touched = {} THEN {}
                ELSE DeadAfter(sceneVersion, tg, touched, currentSlashLength)
        removed == IF sceneVersion = "v2" THEN dead ELSE {}
        StillLive(t) == t \notin removed
    IN
    \* if (isCurrentlyDrawing()) endDrawing()
    /\ isDrawing' = FALSE
    /\ drawingEndTime' = IF isDrawing THEN now ELSE drawingEndTime
    \* the loop over hitTargetsThisSlash
    /\ tg' = [t \in TargetIds |->
                IF t \in touched
                THEN ResolveTarget(sceneVersion, tg[t],
                                   AppliedDamage(sceneVersion, currentSlashLength, t))
                ELSE tg[t]]
    /\ slashMarks' = IF dead # {} THEN {} ELSE slashMarks
    /\ targets' = SelectSeq(targets, StillLive)
    /\ activeEnemyCount' = onEnemyKilled(activeEnemyCount, Cardinality(removed))
    /\ canStartNewSlash' = canStartNewSlashAfterUp(canStartNewSlash, isDrawing)
    /\ obs' = [obs EXCEPT
                 !.probes = 0, !.last = NoEvent,
                 !.ups = @ + 1,
                 !.dmgCount = [t \in TargetIds |->
                                 IF t \in touched THEN @[t] + 1 ELSE @[t]],
                 !.lastDamage = [t \in TargetIds |->
                                   IF t \in touched
                                   THEN AppliedDamage(sceneVersion,
                                                      currentSlashLength, t)
                                   ELSE @[t]],
                 !.deaths = [t \in TargetIds |->
                               IF t \in dead THEN @[t] + 1 ELSE @[t]],
                 !.killed = [t \in TargetIds |->
                               IF t \in removed THEN @[t] + 1 ELSE @[t]]]
    /\ UNCHANGED <<sceneVersion, now, trailPoints, drawingStartTime,
                   hasHitTarget, currentSlashLength, hitTargetsThisSlash,
                   enemiesSpawnedInWave>>

----------------------------------------------------------------------------
(* The completion callback handed to Target.explode by the earlier scene *)

explodeComplete(t) ==
    /\ sceneVersion = "v1"
    /\ tg[t].pendingExplode > 0
    /\ tg' = [tg EXCEPT ![t].pendingExplode = @ - 1,
                        ![t].destroyed = TRUE,
                        ![t].tween = "none"]
    /\ targets' = IF IndexOf(targets, t) > 0
                  THEN RemoveAt(targets, IndexOf(targets, t))
                  ELSE targets
    /\ activeEnemyCount' = onEnemyKilled(activeEnemyCount, 1)
    /\ obs' = [obs EXCEPT !.probes = 0, !.last = NoEvent,
                          !.killed[t] = @ + 1]
    /\ UNCHANGED <<sceneVersion, now, trailVars, sceneVars, slashMarks,
                   enemiesSpawnedInWave>>

----------------------------------------------------------------------------
(* ProgressionManager.trySpawnWaveEnemy -> GameScene.spawnEnemy *)

WAVE_TOTAL_ENEMY_COUNT == 5
WAVE_MAX_CONCURRENT == 3

trySpawnWaveEnemy(t, kind) ==
    /\ ~tg[t].born
    /\ \A u \in TargetIds : u < t => tg[u].born
    /\ enemiesSpawnedInWave < WAVE_TOTAL_ENEMY_COUNT
    /\ activeEnemyCount < WAVE_MAX_CONCURRENT
    /\ activeEnemyCount' = activeEnemyCount + 1
    /\ tg' = [tg EXCEPT ![t] = NewTarget(kind)]
    /\ targets' = Append(targets, t)
    /\ enemiesSpawnedInWave' = enemiesSpawnedInWave + 1
    /\ obs' = [obs EXCEPT !.probes = 0, !.last = NoEvent]
    /\ UNCHANGED <<sceneVersion, now, trailVars, sceneVars, slashMarks>>

----------------------------------------------------------------------------
(* Tweens on the target container: entrance, death fade-out, vanish *)

tweenUpdate(t) ==
    /\ tg[t].born
    /\ ~tg[t].destroyed
    /\ tg[t].tween # "none"
    /\ LET a == IF tg[t].tween = "in" THEN AlphaUp(tg[t].alpha)
                ELSE AlphaDown(tg[t].alpha)
           done == (tg[t].tween = "in" /\ a = 100)
                   \/ (tg[t].tween # "in" /\ a = 0)
       IN tg' = [tg EXCEPT ![t].alpha = a,
                           ![t].tween = IF done THEN "none" ELSE @,
                           \* the vanish tween ends in this.destroy()
                           ![t].destroyed = (done /\ tg[t].tween = "vanish")]
    /\ obs' = [obs EXCEPT !.probes = 0, !.last = NoEvent]
    /\ UNCHANGED <<sceneVersion, now, trailVars, sceneVars, targets, slashMarks,
                   activeEnemyCount, enemiesSpawnedInWave>>

\* Target.attackPlayer of the later Target: the enemy leaves after attacking
attackPlayer(t) ==
    /\ sceneVersion = "v2"
    /\ tg[t].born
    /\ ~tg[t].destroyed
    /\ ~isDead(tg[t].hp)
    /\ tg[t].tween = "none"
    /\ tg' = [tg EXCEPT ![t].tween = "vanish"]
    /\ obs' = [obs EXCEPT !.probes = 0, !.last = NoEvent]
    /\ UNCHANGED <<sceneVersion, now, trailVars, sceneVars, targets, slashMarks,
                   activeEnemyCount, enemiesSpawnedInWave>>

----------------------------------------------------------------------------
(* One frame: scene.time.now advances by d, then GameScene.update runs *)

\* a cleanup filter that takes every target for a ghost
IsGhostAlways(rec, isOldEnough) == TRUE

\* the ghost cleanup filter of the later scene; isOldEnough tells whether
\* more than 2000 ms of wall-clock time have passed since the spawnTime
IsGhost(rec, isOldEnough) ==
    \/ rec.destroyed
    \/ (rec.alpha <= 1 /\ isDead(rec.hp))
    \/ (rec.alpha < 30 /\ isOldEnough)

update(d, oldOnes) ==
    LET t2 == now + d
        Keep(t) == ~IsGhost(tg[t], t \in oldOnes)
        kept == IF sceneVersion = "v2" THEN SelectSeq(targets, Keep) ELSE targets
        gone == SeqToSet(targets) \ SeqToSet(kept)
    IN
    /\ now' = t2
    /\ trailPoints' = drawTrail(trailPoints, isDrawing, drawingEndTime, t2)
    /\ targets' = kept
    /\ tg' = [t \in TargetIds |->
                IF t \in gone THEN [tg[t] EXCEPT !.destroyed = TRUE, !.tween = "none"]
                ELSE tg[t]]
    /\ activeEnemyCount' = onEnemyKilled(activeEnemyCount, Cardinality(gone))
    /\ obs' = [obs EXCEPT !.probes = 0, !.last = NoEvent,
                          !.killed = [t \in TargetIds |->
                                        IF t \in gone THEN @[t] + 1 ELSE @[t]]]
    /\ UNCHANGED <<sceneVersion, isDrawing, drawingStartTime, drawingEndTime,
                   sceneVars, slashMarks, enemiesSpawnedInWave>>

----------------------------------------------------------------------------
(* The scene: every event of the running game *)

PointerDown == \E x \in Points : obs.sessions < MaxSessions /\ onPointerDown(x)
PointerMove == \E x \in Points : (obs.moves < MaxMoves \/ ~isDrawing) /\ onPointerMove(x)
PointerUp == obs.ups < MaxUps /\ onPointerUp
PointerUpOutside == obs.ups < MaxUps /\ onPointerUp
PointerOut == obs.ups < MaxUps /\ onPointerUp
ExplodeComplete == \E t \in TargetIds : explodeComplete(t)
Spawn == \E t \in TargetIds, k \in Kinds : trySpawnWaveEnemy(t, k)
Tween == \E t \in TargetIds : tweenUpdate(t)
Attack == \E t \in TargetIds : attackPlayer(t)
Frame == \E d \in TickSteps, oldOnes \in SUBSET {t \in SeqToSet(targets) : tg[t].alpha < 30} :
            now + d <= MaxNow /\ update(d, oldOnes)

Next ==
    \/ PointerDown
    \/ PointerMove
    \/ PointerUp
    \/ PointerUpOutside
    \/ PointerOut
    \/ ExplodeComplete
    \/ Spawn
    \/ Tween
    \/ Attack
    \/ Frame

Spec == Init /\ [][Next]_vars

----------------------------------------------------------------------------
(* The trail tracker alone: one long gesture, no targets *)

TrailDown == \E x \in TrailPts : obs.sessions = 0 /\ onPointerDown(x)
TrailMove == \E x \in TrailPts : obs.moves < MaxTrailMoves /\ onPointerMove(x)
TrailUp == obs.ups < MaxUps /\ onPointerUp
TrailFrame == \E d \in TrailTickSteps : now + d <= MaxNow /\ update(d, {})

NextTrail ==
    \/ TrailDown
    \/ TrailMove
    \/ TrailUp
    \/ TrailFrame

SpecTrail == Init /\ [][NextTrail]_vars

----------------------------------------------------------------------------
(* The damage formula: a gesture of any length that touched target 1 is
   about to be released.  The gesture went down on the target's centre and
   moved len pixels to the right in one move. *)

DamageLengths == {4 * k : k \in 0..(MaxLenInit \div 4)}

InitDamage ==
    \E len \in DamageLengths :
      LET x0 == TargetCenterX(1)
          cand == <<1>>
          v == sceneVersion
      IN
      /\ sceneVersion \in Versions
      /\ now = 0
      /\ trailPoints = IF len >= MIN_POINT_DISTANCE * dpr
                       THEN <<TrailPoint(x0, 0, 0), TrailPoint(x0 + len, 0, 0)>>
                       ELSE <<TrailPoint(x0, 0, 0)>>
      /\ isDrawing = TRUE
      /\ drawingStartTime = 0
      /\ drawingEndTime = 0
      /\ canStartNewSlash = FALSE
      /\ hasHitTarget = TRUE
      /\ currentSlashLength = len
      /\ hitTargetsThisSlash = {1}
      /\ targets = cand
      /\ tg = [t \in TargetIds |->
                 IF t = 1 THEN [NewTarget("FlyBot") EXCEPT !.alpha = 100,
                                                           !.tween = "none"]
                 ELSE Unborn]
      /\ slashMarks = {MarkFor(h[2], CheckX(x0, len, h[1], StepsOf(v, len)), len) :
                         h \in SegmentHits(v, cand, x0, x0 + len)}
      /\ activeEnemyCount = 1
      /\ enemiesSpawnedInWave = 1
      /\ obs = [Obs0 EXCEPT !.sessions = 1, !.moves = 1,
                            !.hitSamples[1] = Min(MaxCount, Cardinality(
                                SegmentHits(v, cand, x0, x0 + len)))]

NextDamage == PointerUp

SpecDamage == InitDamage /\ [][NextDamage]_vars

----------------------------------------------------------------------------
(* The collision resolver at pixel resolution: a session has just started at
   one of CollisionPts, over a visible FlyBot (centre 100, 24 wide) and a
   visible OrangeBot (centre 200, 240 wide) that overlaps it. *)

CollisionPts == {89, 99, 100, 108, 112, 330}

InitCollision ==
    \E x0 \in CollisionPts :
      /\ sceneVersion \in Versions
      /\ now = 0
      /\ trailPoints = startDrawing(x0, 0, 0).pts
      /\ isDrawing = TRUE
      /\ drawingStartTime = 0
      /\ drawingEndTime = 0
      /\ canStartNewSlash = FALSE
      /\ hasHitTarget = FALSE
      /\ currentSlashLength = 0
      /\ hitTargetsThisSlash = {}
      /\ targets = <<1, 2>>
      /\ slashMarks = {}
      /\ tg = [t \in TargetIds |->
                 IF t = 1 THEN [NewTarget("FlyBot") EXCEPT !.alpha = 100,
                                                           !.tween = "none"]
                 ELSE IF t = 2
                 THEN [NewTarget("OrangeBot") EXCEPT !.alpha = 100,
                                                     !.tween = "none"]
                 ELSE Unborn]
      /\ activeEnemyCount = 2
      /\ enemiesSpawnedInWave = 2
      /\ obs = [Obs0 EXCEPT !.sessions = 1, !.lastX = x0]

CollisionMove == \E x \in CollisionPts :
                    (obs.moves < MaxMoves \/ ~isDrawing) /\ onPointerMove(x)
CollisionUp == obs.ups < MaxUps /\ onPointerUp
CollisionFrame == \E d \in TickSteps : now + d <= MaxNow /\ update(d, {})

NextCollision ==
    \/ CollisionMove
    \/ CollisionUp
    \/ CollisionFrame

SpecCollision == InitCollision /\ [][NextCollision]_vars

----------------------------------------------------------------------------
(* Properties of the slash pipeline *)

\* a step taken by the release handler (pointerup, pointerupoutside, pointerout)
ReleaseStep == obs'.ups = obs.ups + 1

\* a step in which a pointer-down starts a session
SessionStartStep == obs'.sessions = obs.sessions + 1

\* a step in which a pointer-move is handled by a drawing trail
MoveStep == obs'.moves = obs.moves + 1

\* C1: in every gesture, a target hit by one or more samples, in one or more
\* move events, has takeDamage applied exactly once by the release that ends
\* the gesture, and a target hit by no sample has it applied not at all;
\* before the release nothing is applied.
C1_DamageOncePerTouchedTarget ==
    \A t \in TargetIds :
        /\ obs.ups = 0 => obs.dmgCount[t] = 0
        /\ obs.ups = 1 =>
              obs.dmgCount[t] = (IF obs.hitSamples[t] > 0 THEN 1 ELSE 0)

\* a gesture of two moves whose samples hit target 1 several times has been
\* released, and target 1 took damage once
C1_Witness ==
    /\ obs.ups = 1
    /\ obs.moves = 2
    /\ obs.hitSamples[1] >= 2
    /\ obs.dmgCount[1] = 1

\* C2: onEnemyKilled() has been invoked exactly once for each target whose
\* death was processed: never twice for the same target, and at least once
\* as soon as the death sequence has completed.
C2_KilledExactlyOnce ==
    \A t \in TargetIds :
        /\ obs.killed[t] <= 1
        /\ (obs.deaths[t] > 0 /\ tg[t].pendingExplode = 0) => obs.killed[t] >= 1

\* C3: the touched set only grows while the session draws, and once a release
\* has run in a session, no later step before the next pointer-down applies
\* damage or starts a death sequence again.
C3_TouchedConsumedOnce ==
    [][/\ (isDrawing /\ isDrawing') =>
             hitTargetsThisSlash \subseteq hitTargetsThisSlash'
       /\ (obs.ups >= 1 /\ ~SessionStartStep) =>
             \A t \in TargetIds : /\ obs'.dmgCount[t] = obs.dmgCount[t]
                                  /\ obs'.deaths[t] = obs.deaths[t]]_vars

\* C4: drawing implies the gesture lock is held; while the lock is held no
\* step starts a session or resets the trail, the length or the touched set,
\* and the first ignored pointer-down of a session leaves them unchanged;
\* only the release handler sets the lock back to true.
C4_OneSessionInFlight ==
    /\ [](isDrawing => ~canStartNewSlash)
    /\ [][/\ ~canStartNewSlash =>
                /\ ~SessionStartStep
                /\ drawingStartTime' = drawingStartTime
                /\ ~(~isDrawing /\ isDrawing')
                /\ hitTargetsThisSlash \subseteq hitTargetsThisSlash'
                /\ currentSlashLength' >= currentSlashLength
          /\ ("downIgnored" \notin obs.flags /\ "downIgnored" \in obs'.flags) =>
                /\ ~canStartNewSlash
                /\ UNCHANGED <<trailPoints, isDrawing, drawingStartTime,
                               drawingEndTime, currentSlashLength,
                               hitTargetsThisSlash, canStartNewSlash>>
          /\ (~canStartNewSlash /\ canStartNewSlash') => ReleaseStep]_vars

\* a pointer-down was ignored between a forced timeout and the release
C4_Witness ==
    /\ "forcedEnd" \in obs.flags
    /\ "downIgnored" \in obs.flags
    /\ ~canStartNewSlash
    /\ ~isDrawing
    /\ obs.ups = 0

\* C5: the trail never holds more than MAX_TRAIL_POINTS points, and a push
\* that causes a drop removes the head of the sequence, keeps the order of
\* the rest and leaves the new point, taken at the current time away from
\* the previous last point, as the last element.
C5_TrailBoundedFifo ==
    /\ [](Len(trailPoints) <= MAX_TRAIL_POINTS)
    /\ [][obs'.drops > obs.drops =>
             /\ Len(trailPoints') > 0
             /\ trailPoints' = Append(Tail(trailPoints), Last(trailPoints'))
             /\ Last(trailPoints').time = now
             /\ Last(trailPoints').x # Last(trailPoints).x]_vars

\* a long gesture has pushed past the capacity and dropped points
C5_Witness ==
    /\ obs.drops >= 2
    /\ isDrawing
    /\ Len(trailPoints) = MAX_TRAIL_POINTS - 1

\* C6: whenever a session has ended, its recorded duration
\* drawingEndTime - drawingStartTime is at most MAX_SLASH_DURATION.
C6_DurationCapped ==
    (obs.sessions >= 1 /\ ~isDrawing) =>
        drawingEndTime - drawingStartTime <= MAX_SLASH_DURATION

\* C7: a move that arrives MAX_SLASH_DURATION or more after the session start
\* ends the session, and that move as well as every step taken while the
\* trail does not draw, up to the next pointer-down, appends no trail point,
\* adds nothing to the accumulated length, makes no hit test and adds no
\* target to the touched set.
C7_MovesIgnoredAfterTimeout ==
    [][/\ (isDrawing /\ MoveStep /\ now - drawingStartTime >= MAX_SLASH_DURATION)
             => ~isDrawing'
       /\ (isDrawing /\ ~isDrawing' /\ ~ReleaseStep) =>
             /\ now - drawingStartTime >= MAX_SLASH_DURATION
             /\ drawingEndTime' = now
             /\ obs'.probes = 0
             /\ UNCHANGED <<trailPoints, currentSlashLength, hitTargetsThisSlash,
                            hasHitTarget, slashMarks>>
       /\ (~isDrawing /\ ~SessionStartStep) =>
             /\ ~isDrawing'
             /\ Len(trailPoints') <= Len(trailPoints)
             /\ obs'.probes = 0
             /\ UNCHANGED <<currentSlashLength, hitTargetsThisSlash,
                            hasHitTarget>>]_vars

\* a session that touched a target was ended by the timeout, and a further
\* move arrived before the release
C7_Witness ==
    /\ "forcedEnd" \in obs.flags
    /\ "moveIgnored" \in obs.flags
    /\ hitTargetsThisSlash # {}
    /\ currentSlashLength > 0
    /\ ~isDrawing
    /\ obs.ups = 0

\* C8: the first release of a session applies damage to every target touched
\* so far, whether the trail was still drawing or had been ended by the
\* timeout, and no step takes a target out of the touched set unless damage
\* has been applied to each of its targets.
C8_EarlyEndStillDamages ==
    [][/\ (ReleaseStep /\ obs.ups = 0) =>
             \A t \in hitTargetsThisSlash : /\ obs'.dmgCount[t] = 1
                                            /\ tg'[t].hp = takeDamage(tg[t].hp,
                                                   obs'.lastDamage[t])
       /\ ~(hitTargetsThisSlash \subseteq hitTargetsThisSlash') =>
             \A t \in hitTargetsThisSlash : obs.dmgCount[t] >= 1]_vars

\* a session ended by the timeout was released and its targets took damage
C8_Witness ==
    /\ "forcedEnd" \in obs.flags
    /\ obs.ups = 1
    /\ hitTargetsThisSlash # {}
    /\ \A t \in hitTargetsThisSlash :
          obs.dmgCount[t] = 1 /\ tg[t].hp < Scaled(getMaxHP(tg[t].kind))

\* C9 as stated: the damage applied at release lies in
\* [BASE_DAMAGE, BASE_DAMAGE + BONUS_DAMAGE], does not decrease with the
\* accumulated length, and is BASE_DAMAGE + BONUS_DAMAGE at the full-bonus
\* length.
C9_DamageInRange ==
    obs.ups >= 1 =>
        /\ obs.lastDamage[1] >= Scaled(BASE_DAMAGE)
        /\ obs.lastDamage[1] <= Scaled(BASE_DAMAGE + BONUS_DAMAGE)
        /\ \A l \in DamageLengths :
              l <= currentSlashLength =>
                 DamageOf(sceneVersion, l) <= obs.lastDamage[1]
        /\ currentSlashLength = maxSlashLength =>
              obs.lastDamage[1] = Scaled(BASE_DAMAGE + BONUS_DAMAGE)

\* C9, amended: in the scene with length-based damage the amount lies in
\* [BASE_DAMAGE, BASE_DAMAGE + BONUS_DAMAGE], does not decrease with the
\* accumulated length and is BASE_DAMAGE + BONUS_DAMAGE from the full-bonus
\* length on; in the scene with one-hit kills it is the constant 9999.
C9_DamagePerScene ==
    obs.ups >= 1 =>
        IF sceneVersion = "v1"
        THEN /\ obs.lastDamage[1] >= Scaled(BASE_DAMAGE)
             /\ obs.lastDamage[1] <= Scaled(BASE_DAMAGE + BONUS_DAMAGE)
             /\ \A l \in DamageLengths :
                   l <= currentSlashLength =>
                      DamageOf(sceneVersion, l) <= obs.lastDamage[1]
             /\ currentSlashLength >= maxSlashLength =>
                   obs.lastDamage[1] = Scaled(BASE_DAMAGE + BONUS_DAMAGE)
             /\ currentSlashLength = 0 => obs.lastDamage[1] = Scaled(BASE_DAMAGE)
        ELSE obs.lastDamage[1] = Scaled(ONE_HIT_DAMAGE)

\* a gesture longer than the full-bonus length was released in the scene with
\* length-based damage
C9_Witness ==
    /\ sceneVersion = "v1"
    /\ obs.ups = 1
    /\ currentSlashLength > maxSlashLength
    /\ obs.lastDamage[1] = Scaled(DAMAGE_CAP)
    /\ tg[1].hp = Scaled(FLYBOT_HP - DAMAGE_CAP)

\* C10: after a release, every target of the touched set has received the
\* same amount, the one computed from the accumulated length at release,
\* however many samples hit it.
C10_SameDamageForAll ==
    obs.ups >= 1 =>
        \A t \in hitTargetsThisSlash :
            obs.lastDamage[t] = DamageOf(sceneVersion, currentSlashLength)

\* two targets hit by different numbers of samples received the same,
\* length-based amount
C10_Witness ==
    /\ sceneVersion = "v1"
    /\ obs.ups = 1
    /\ hitTargetsThisSlash = {1, 2}
    /\ obs.hitSamples[1] # obs.hitSamples[2]
    /\ currentSlashLength = maxSlashLength
    /\ obs.lastDamage[1] = Scaled(DAMAGE_CAP)
    /\ obs.lastDamage[2] = Scaled(DAMAGE_CAP)

\* C11: when the release handler has resolved a session, every touched
\* target whose hp became <= 0 is absent from the live-target collection.
C11_DeadAbsentAfterRelease ==
    [][ReleaseStep =>
          \A t \in hitTargetsThisSlash :
              isDead(tg'[t].hp) => t \notin SeqToSet(targets')]_vars

\* C12: at the first release of a session, a touched target that is no longer
\* in the live-target collection receives no takeDamage, starts no death
\* sequence and causes no onEnemyKilled notification.
C12_RemovedTargetSkipped ==
    [][(ReleaseStep /\ obs.ups = 0) =>
          \A t \in hitTargetsThisSlash :
              t \notin SeqToSet(targets) =>
                  /\ obs'.dmgCount[t] = obs.dmgCount[t]
                  /\ obs'.deaths[t] = obs.deaths[t]
                  /\ obs'.killed[t] = obs.killed[t]
                  /\ tg'[t] = tg[t]]_vars

\* no sample point of the event lands on an opaque pixel of target t
NoOpaqueSample(t, ev) ==
    \A k \in 1..Len(ev.samples) :
        ~(/\ BoundsContains(t, ev.samples[k])
          /\ isPixelOpaque(t, ev.samples[k] - TargetCenterX(t)))

\* C13: a move none of whose sample points lands on an opaque pixel of a
\* target records no SlashMark for it, does not add it to the touched set and
\* counts no hit for it; the marks a move records are those of its hits; and
\* a target no sample hit during the gesture is not in the touched set and
\* keeps its hp at release.
C13_MissLeavesTargetAlone ==
    [][\A t \in TargetIds :
          /\ (MoveStep /\ NoOpaqueSample(t, obs'.last)) =>
                /\ \A m \in obs'.last.marks : m.target # t
                /\ t \in hitTargetsThisSlash' => t \in hitTargetsThisSlash
                /\ obs'.hitSamples[t] = obs.hitSamples[t]
          /\ MoveStep =>
                slashMarks' \subseteq slashMarks \cup
                    {[startX |-> m.startX, endX |-> m.endX] : m \in obs'.last.marks}
          /\ (~MoveStep /\ ~SessionStartStep) =>
                obs'.hitSamples[t] = obs.hitSamples[t]
          /\ (ReleaseStep /\ obs.hitSamples[t] = 0) =>
                /\ t \notin hitTargetsThisSlash
                /\ tg'[t].hp = tg[t].hp]_vars

\* a gesture from 108 to 112 crossed only transparent pixels of the FlyBot
\* while hitting the OrangeBot behind it, and was released
C13_Witness ==
    /\ obs.ups = 1
    /\ Len(trailPoints) = 2
    /\ trailPoints[1].x = 108
    /\ trailPoints[2].x = 112
    /\ Len(obs.last.samples) = 0
    /\ obs.hitSamples[1] = 0
    /\ 1 \notin hitTargetsThisSlash
    /\ 2 \in hitTargetsThisSlash
    /\ tg[1].hp = Scaled(FLYBOT_HP)
    /\ tg[2].hp < Scaled(ORANGEBOT_HP)

\* C14: while a session is active, currentSlashLength is the sum of the
\* distances between consecutive pointer positions fed to the session since
\* pointer-down: it starts at 0 and every handled move adds the distance from
\* the previous pointer position, whether or not the trail kept the point and
\* whether or not a target is visible.
C14_LengthIsPathLength ==
    [][/\ SessionStartStep => currentSlashLength' = 0
       /\ (MoveStep /\ isDrawing')
            => currentSlashLength' =
                 currentSlashLength + Abs(obs'.lastX - obs.lastX)]_vars

\* C15: in one pointer-move event every target hit by at least one sample is
\* shaken, whatever else is hit in the same move.
C15_EveryHitTargetShaken ==
    [][MoveStep => {h[2] : h \in obs'.last.hits} \subseteq obs'.last.shaken]_vars

\* the (sample index, target) pairs of the last move whose sample lies in the
\* bounds of a visible target on an opaque pixel, read off the state the move
\* started in
OpaquePairs(ev) ==
    {p \in (0..(Len(ev.samples) - 1)) \X SeqToSet(visibleTargets(sceneVersion, targets, tg)) :
        /\ BoundsContains(p[2], ev.samples[p[1] + 1])
        /\ isPixelOpaque(p[2], ev.samples[p[1] + 1] - TargetCenterX(p[2]))}

\* C16: a pointer-move with a previous point records exactly one SlashMark
\* for every (sample, target) pair whose pixel is opaque and none for any
\* other pair, and plays the hit sound at most once (once when anything was
\* hit).
C16_OneMarkPerOpaqueSample ==
    [][(MoveStep /\ Len(trailPoints) > 0 /\ Len(obs'.last.samples) > 0)
         => /\ \A p \in OpaquePairs(obs'.last) :
                 /\ Cardinality({m \in obs'.last.marks :
                                    m.i = p[1] /\ m.target = p[2]}) = 1
                 /\ \A m \in obs'.last.marks :
                      (m.i = p[1] /\ m.target = p[2])
                        => /\ m.sample = obs'.last.samples[p[1] + 1]
                           /\ [startX |-> m.startX, endX |-> m.endX]
                                 \in slashMarks'
            /\ \A m \in obs'.last.marks :
                 <<m.i, m.target>> \in OpaquePairs(obs'.last)
            /\ obs'.last.sounds <= 1
            /\ (OpaquePairs(obs'.last) # {}) = (obs'.last.sounds = 1)]_vars

\* one move from x = 108 to x = 99 tested four samples, six (sample, target)
\* pairs were opaque (two on the FlyBot, four on the OrangeBot), six marks
\* were recorded and the sound played once
C16_Witness ==
    /\ obs.moves = 1
    /\ obs.lastX = 99
    /\ obs.last.samples = <<108, 105, 102, 99>>
    /\ Cardinality(obs.last.marks) = 6
    /\ Cardinality({m \in obs.last.marks : m.target = 1}) = 2
    /\ Cardinality({m \in obs.last.marks : m.target = 2}) = 4
    /\ obs.last.sounds = 1

\* the most probes one direction of the span search can make: dist runs from
\* sampleStep in steps of sampleStep while dist < maxSearchLength
MaxProbesPerDirection == CeilDiv(maxSearchLength - sampleStep, sampleStep)

\* C17: both end points of every SlashMark a move records lie on the move's
\* line, the start behind and the end ahead of the triggering sample, each
\* strictly closer than maxSearchLength to it; and the move makes a bounded
\* number of opacity probes: one per tested (sample, target) pair plus at
\* most MaxProbesPerDirection per direction per opaque pair.
C17_SpanWithinSearchLength ==
    [][MoveStep
         => /\ \A m \in obs'.last.marks :
                 /\ Abs(m.startX - m.sample) < maxSearchLength
                 /\ Abs(m.endX - m.sample) < maxSearchLength
                 /\ (m.sample - m.startX) * Sign(m.dx) >= 0
                 /\ (m.endX - m.sample) * Sign(m.dx) >= 0
                 /\ (m.dx = 0) => (m.startX = m.sample /\ m.endX = m.sample)
            /\ obs'.probes <=
                 Len(obs'.last.samples) * Len(targets)
                   * (1 + 2 * MaxProbesPerDirection)]_vars

\* a move over the 240 px wide OrangeBot recorded a mark whose forward search
\* ran into the search length: its end is the last probe short of
\* maxSearchLength
C17_Witness ==
    /\ obs.moves >= 1
    /\ \E m \in obs.last.marks :
         /\ m.target = 2
         /\ m.dx # 0
         /\ Abs(m.endX - m.sample) = maxSearchLength - sampleStep
         /\ Abs(m.startX - m.sample) < maxSearchLength - sampleStep
    /\ obs.probes > 2 * MaxProbesPerDirection

\* off is the end of the maximal contiguous opaque run of target t that starts
\* next to the sample at relative position rel and runs in direction n, at
\* sampleStep resolution and capped by maxSearchLength: every probe up to off
\* is opaque, and the probe after off is transparent or beyond the cap
MaximalRun(t, rel, n, off) ==
    /\ off >= 0
    /\ off % sampleStep = 0
    /\ \A k \in 1..(off \div sampleStep) :
         isPixelOpaque(t, rel + n * k * sampleStep)
    /\ \/ off + sampleStep >= maxSearchLength
       \/ ~isPixelOpaque(t, rel + n * (off + sampleStep))

\* C18: in each direction the end point of a mark is the last probe of the
\* contiguous opaque run that starts next to the triggering sample: every
\* probe between the sample and the end point is opaque and the next probe is
\* transparent or beyond the search length; the span drawn on the target is
\* the same span.
C18_SpanIsContiguousRun ==
    [][MoveStep
         => \A m \in obs'.last.marks :
              m.dx # 0 =>
                /\ MaximalRun(m.target, m.sample - TargetCenterX(m.target),
                              -Sign(m.dx), (m.sample - m.startX) * Sign(m.dx))
                /\ MaximalRun(m.target, m.sample - TargetCenterX(m.target),
                              Sign(m.dx), (m.endX - m.sample) * Sign(m.dx))
                /\ m.drawn = [drawn |-> TRUE, startX |-> m.startX,
                              endX |-> m.endX]]_vars

\* a move to the left hit the FlyBot at x = 102: the forward search stopped at
\* x = 100, before the transparent gap at 98..99, although x = 96 beyond the
\* gap is opaque; the backward search stopped at 106 before the faint halo
C18_Witness ==
    /\ obs.moves >= 1
    /\ \E m \in obs.last.marks :
         /\ m.target = 1
         /\ m.sample = 102
         /\ m.dx < 0
         /\ m.endX = 100
         /\ m.startX = 106
         /\ ~isPixelOpaque(1, 98 - TargetCenterX(1))
         /\ isPixelOpaque(1, 96 - TargetCenterX(1))

\* C19: a move from the previous point P0 to the pointer position P1 that
\* reaches the narrow phase tests ceil(d/s) + 1 samples (d the distance, s the
\* scene's step size), the first at P0, the last at P1, sample i at
\* P0 + (i/steps)(P1 - P0) (on the pixel grid: rounded down); a move of
\* distance 0 tests exactly one sample, P0.
C19_SampleCount ==
    [][(/\ MoveStep
        /\ isDrawing'
        /\ Len(trailPoints) > 0
        /\ Len(nearbyTargets(sceneVersion,
                             visibleTargets(sceneVersion, targets, tg),
                             Last(trailPoints).x, obs'.lastX)) > 0)
         => LET P0 == Last(trailPoints).x
                P1 == obs'.lastX
                d == Abs(P1 - P0)
                s == IF sceneVersion = "v1" THEN stepSize ELSE stepSizeV2
                S == obs'.last.samples
                steps == Len(S) - 1
            IN /\ Len(S) >= 1
               /\ steps * s >= d
               /\ steps > 0 => (steps - 1) * s < d
               /\ S[1] = P0
               /\ S[Len(S)] = P1
               /\ \A i \in 0..steps :
                    steps > 0 =>
                      /\ steps * (S[i + 1] - P0) <= i * (P1 - P0)
                      /\ i * (P1 - P0) < steps * (S[i + 1] - P0) + steps
               /\ d = 0 => S = <<P0>>]_vars

\* a move from x = 99 to x = 112 (distance 13, step 4) tested 5 samples, from
\* 99 to 112, the inner ones at 99 + 13 i / 4 rounded down
C19_Witness ==
    /\ obs.moves >= 1
    /\ obs.lastX = 112
    /\ Len(trailPoints) >= 2
    /\ trailPoints[Len(trailPoints) - 1].x = 99
    /\ Last(trailPoints).x = 112
    /\ obs.last.samples = <<99, 102, 105, 108, 112>>

\* the pointer position x is closer than MIN_POINT_DISTANCE * dpr to the last
\* recorded trail point
Redundant(x) ==
    /\ Len(trailPoints) > 0
    /\ Abs(x - Last(trailPoints).x) < MIN_POINT_DISTANCE * dpr

\* C20: a move of a drawing session to a point closer than
\* MIN_POINT_DISTANCE * dpr to the last recorded point, made before the
\* duration cap, leaves trailPoints as it was and the session drawing (the
\* call returned true); made at or after the cap it ends the session, stamps
\* drawingEndTime and still appends nothing.
C20_RedundantPointSkipped ==
    [][(MoveStep /\ isDrawing /\ Redundant(obs'.lastX))
         => /\ trailPoints' = trailPoints
            /\ IF now - drawingStartTime < MAX_SLASH_DURATION
               THEN /\ isDrawing'
                    /\ drawingEndTime' = drawingEndTime
                    /\ "forcedEnd" \notin obs'.flags \ obs.flags
               ELSE /\ ~isDrawing'
                    /\ drawingEndTime' = now
                    /\ "forcedEnd" \in obs'.flags]_vars

\* under the cap the pointer moved from the first point at x = 100 to x = 99:
\* the trail still holds the one point and the session is still drawing
C20_Witness ==
    /\ obs.moves >= 1
    /\ isDrawing
    /\ now - drawingStartTime < MAX_SLASH_DURATION
    /\ obs.lastX = 99
    /\ Len(trailPoints) = 1
    /\ Last(trailPoints).x = 100
    /\ "forcedEnd" \notin obs.flags

\* C21: a push drops the oldest point only when the point count after the
\* append exceeds MAX_TRAIL_POINTS, so the trail of a long gesture grows to
\* MAX_TRAIL_POINTS points before anything is dropped.
C21_DropsOnlyAboveCapacity ==
    [][obs'.drops > obs.drops
         => /\ Len(trailPoints) + 1 > MAX_TRAIL_POINTS
            /\ Len(trailPoints') = MAX_TRAIL_POINTS]_vars

----------------------------------------------------------------------------
(* The trail's fade after a session: sessions on an empty scene, with render
   ticks fine enough to land before, inside and after the fade.  The scene
   clock is already running when the first pointer event arrives. *)

FadeStartTimes == {50, 100}
FadeTickSteps == {50, 150}
FadePts == {0, 8}

InitFade ==
    /\ sceneVersion \in Versions
    /\ now \in FadeStartTimes
    /\ trailPoints = <<>>
    /\ isDrawing = FALSE
    /\ drawingStartTime = 0
    /\ drawingEndTime = 0
    /\ canStartNewSlash = TRUE
    /\ hasHitTarget = FALSE
    /\ currentSlashLength = 0
    /\ hitTargetsThisSlash = {}
    /\ targets = <<>>
    /\ slashMarks = {}
    /\ tg = [t \in TargetIds |-> Unborn]
    /\ activeEnemyCount = 0
    /\ enemiesSpawnedInWave = 0
    /\ obs = Obs0

FadeDown == \E x \in FadePts : obs.sessions < MaxSessions /\ onPointerDown(x)
FadeMove == \E x \in FadePts :
               (obs.moves < MaxMoves \/ ~isDrawing) /\ onPointerMove(x)
FadeUp == obs.ups < MaxUps /\ onPointerUp
FadeFrame == \E d \in FadeTickSteps : now + d <= MaxNow /\ update(d, {})

NextFade ==
    \/ FadeDown
    \/ FadeMove
    \/ FadeUp
    \/ FadeFrame

SpecFade == InitFade /\ [][NextFade]_vars

\* a step in which GameScene.update ran: the only handler that moves the clock
FrameStep == now' # now

\* C22: ending a session (by release or by the duration cap) stamps
\* drawingEndTime and keeps the points.  After the end at endTime the fade
\* alpha is full up to endTime + TRAIL_FADE_TIME, then falls linearly, and is
\* 0 from endTime + TRAIL_FADE_TIME + TRAIL_FADE_DURATION on and not before.
\* A render tick before that instant keeps the points, a tick at or after it
\* leaves the trail empty, and so does every later tick before the next
\* session starts.
C22_FadeThenDiscard ==
    /\ [][(isDrawing /\ ~isDrawing')
            => (trailPoints' = trailPoints /\ drawingEndTime' = now)]_vars
    /\ [](~isDrawing /\ drawingEndTime > 0 =>
            LET a == trailFadeAlpha(isDrawing, drawingEndTime, now)
                since == now - drawingEndTime
            IN /\ since <= TRAIL_FADE_TIME => a = TRAIL_FADE_DURATION
               /\ (since > TRAIL_FADE_TIME
                   /\ since < TRAIL_FADE_TIME + TRAIL_FADE_DURATION)
                     => a = TRAIL_FADE_DURATION - (since - TRAIL_FADE_TIME)
               /\ (a = 0) = (since >= TRAIL_FADE_TIME + TRAIL_FADE_DURATION))
    /\ [][(FrameStep /\ ~isDrawing /\ drawingEndTime > 0)
            => IF now' >= drawingEndTime + TRAIL_FADE_TIME + TRAIL_FADE_DURATION
               THEN trailPoints' = <<>>
               ELSE trailPoints' = trailPoints]_vars

\* a session that recorded two points ended at endTime > 0; the render tick at
\* endTime + 250 has emptied the trail
C22_Witness ==
    /\ obs.sessions = 1
    /\ obs.moves >= 1
    /\ obs.ups = 1
    /\ ~isDrawing
    /\ drawingEndTime > 0
    /\ now = drawingEndTime + TRAIL_FADE_TIME + TRAIL_FADE_DURATION
    /\ trailPoints = <<>>

\* what a render tick must not touch in either scene: the touched-target set,
\* the accumulated length, the gesture lock and every target's hp
TickLeavesGesture ==
    /\ UNCHANGED <<hitTargetsThisSlash, currentSlashLength, canStartNewSlash,
                   hasHitTarget, isDrawing>>
    /\ \A t \in TargetIds : tg'[t].hp = tg[t].hp

C24_ZeroMoveSkipsSpanSearch ==
    [][(MoveStep /\ Len(trailPoints) > 0
          /\ obs'.lastX = Last(trailPoints).x)
         => /\ obs'.last.marks = {}
            /\ slashMarks' = slashMarks
            /\ obs'.probes <= Len(targets)]_vars

\* the span search from the sample at x on target t finds no opaque pixel:
\* the first probe is transparent in both directions
SpanFindsNothing(t, x) ==
    /\ ~isPixelOpaque(t, x - TargetCenterX(t) - sampleStep)
    /\ ~isPixelOpaque(t, x - TargetCenterX(t) + sampleStep)

\* C25: in a move with a direction, an opaque sample whose span search finds
\* no opaque pixel in either direction records no SlashMark and draws nothing
\* on the target.
C25_NoSpanNoMark ==
    [][MoveStep
         => \A p \in OpaquePairs(obs'.last) :
              (obs'.lastX # Last(trailPoints).x
                 /\ SpanFindsNothing(p[2], obs'.last.samples[p[1] + 1]))
                => \A m \in obs'.last.marks :
                     ~(m.i = p[1] /\ m.target = p[2])]_vars

\* C26: a move that gets past addTrailPoint with some target visible finds
\* the same (sample, target) hits, touches the same targets and records the
\* same marks as the narrow phase run over all visible targets, whatever the
\* broad phase rejected.
C26_BroadPhaseSound ==
    [][(MoveStep /\ isDrawing' /\ Len(trailPoints) > 0
          /\ Len(visibleTargets(sceneVersion, targets, tg)) > 0)
         => LET vis == visibleTargets(sceneVersion, targets, tg)
                P0 == Last(trailPoints).x
                P1 == obs'.lastX
                H == SegmentHits(sceneVersion, vis, P0, P1)
                M == MarksOf(sceneVersion, H, P0, P1)
            IN /\ obs'.last.hits = H
               /\ hitTargetsThisSlash' = hitTargetsThisSlash \cup {h[2] : h \in H}
               /\ obs'.last.marks = M
               /\ slashMarks' = slashMarks \cup
                     {[startX |-> m.startX, endX |-> m.endX] : m \in M}]_vars

\* in the later scene a move at x = 330 ran the narrow phase on the OrangeBot
\* alone: the visible FlyBot, more than BROAD_MARGIN away from the segment,
\* was rejected by the broad phase
C26_Witness ==
    /\ sceneVersion = "v2"
    /\ obs.moves = 1
    /\ obs.ups = 0
    /\ obs.lastX = 330
    /\ Last(trailPoints).x = 330
    /\ obs.last.samples = <<330>>
    /\ visibleTargets(sceneVersion, targets, tg) = <<1, 2>>
    /\ nearbyTargets(sceneVersion, <<1, 2>>, 330, 330) = <<2>>

\* C27: while drawing is active the trail holds at least one point; right
\* after a session start it holds exactly the pointer-down position, stamped
\* with the start time; and every pointer-move a session processes finds a
\* previous point, so the single-point branch of the resolver is never taken.
C27_PreviousPointPresent ==
    /\ [](isDrawing => Len(trailPoints) >= 1)
    /\ [][SessionStartStep
            => /\ isDrawing'
               /\ Len(trailPoints') = 1
               /\ trailPoints'[1].x = obs'.lastX
               /\ trailPoints'[1].time = now
               /\ drawingStartTime' = now]_vars
    /\ [][MoveStep => getLastPoint(trailPoints) # NoPoint]_vars

\* a session that started at x = 400 processed a move to x = 100: the trail
\* still begins with the pointer-down position
C27_Witness ==
    /\ isDrawing
    /\ obs.sessions >= 1
    /\ obs.moves = 1
    /\ Len(trailPoints) = 2
    /\ trailPoints[1].x = 400
    /\ trailPoints[2].x = 100
    /\ obs.lastX = 100

\* C28: a target whose container alpha is below the scene's threshold when a
\* move is handled is not hit by that move: no sample hits it, no mark is
\* recorded for it, it does not enter hitTargetsThisSlash.  The touched set
\* grows only in moves, and a release leaves the hp of every target outside
\* the touched set alone, so a target below the threshold for a whole gesture
\* takes no damage.  Hit-testing does not look at hp: a dead target still in
\* the live collection at or above the threshold is touched by a move that
\* samples one of its opaque pixels.
C28_InvisibleNotHit ==
    /\ [][MoveStep
            => \A t \in TargetIds :
                 tg[t].alpha < VisibleAlpha(sceneVersion)
                   => /\ \A h \in obs'.last.hits : h[2] # t
                      /\ \A m \in obs'.last.marks : m.target # t
                      /\ obs'.hitSamples[t] = obs.hitSamples[t]
                      /\ (t \in hitTargetsThisSlash') = (t \in hitTargetsThisSlash)]_vars
    /\ [][~(hitTargetsThisSlash' \subseteq hitTargetsThisSlash) => MoveStep]_vars
    /\ [][ReleaseStep
            => \A t \in TargetIds :
                 t \notin hitTargetsThisSlash => tg'[t].hp = tg[t].hp]_vars
    /\ [][(MoveStep /\ isDrawing')
            => \A p \in OpaquePairs(obs'.last) :
                 tg[p[2]].hp <= 0 => p[2] \in hitTargetsThisSlash']_vars

\* in the earlier scene target 1, killed by the first gesture and still fully
\* opaque at the start of its fade, was touched again by the second gesture,
\* while target 2, still fading in below the threshold under the same move,
\* was not
C28_Witness ==
    /\ sceneVersion = "v1"
    /\ obs.sessions = 2
    /\ obs.moves >= 1
    /\ obs.ups = 0
    /\ tg[1].hp = 0
    /\ tg[1].alpha >= VisibleAlpha(sceneVersion)
    /\ 1 \in SeqToSet(targets)
    /\ 1 \in hitTargetsThisSlash
    /\ obs.hitSamples[1] >= 1
    /\ 2 \in SeqToSet(targets)
    /\ tg[2].alpha < VisibleAlpha(sceneVersion)
    /\ 2 \notin hitTargetsThisSlash
    /\ tg[2].hp = Scaled(FLYBOT_HP)

\* C29: after every handler activeEnemyCount is the number of targets in the
\* live-target collection, and that number never exceeds the wave's
\* maxConcurrent.
C29_CountMatchesLiveTargets ==
    /\ activeEnemyCount = Len(targets)
    /\ Len(targets) <= WAVE_MAX_CONCURRENT

\* C30: every release event, in whatever state it arrives, leaves the gesture
\* lock released and drawing inactive; the lock is held only between a
\* session start and the first release after it; and a pointer-down is
\* ignored only while the lock is held, so the pointer-down that follows a
\* release starts a new session.
C30_ReleaseFreesLock ==
    /\ [][ReleaseStep => (canStartNewSlash' /\ ~isDrawing')]_vars
    /\ [](~canStartNewSlash => (obs.sessions >= 1 /\ obs.ups = 0))
    /\ [][("downIgnored" \in obs'.flags /\ "downIgnored" \notin obs.flags)
            => ~canStartNewSlash]_vars
    /\ [][(SessionStartStep /\ obs.sessions >= 1) => canStartNewSlash]_vars

\* a session that the duration cap had already ended was released: the lock
\* is free again
C30_Witness ==
    /\ "forcedEnd" \in obs.flags
    /\ obs.ups = 1
    /\ canStartNewSlash
    /\ ~isDrawing
    /\ drawingEndTime - drawingStartTime >= MAX_SLASH_DURATION

====
